---- MODULE Spec2Model ----
(***************************************************************************)
(* A model of fcmcmp: the processing-step pipeline and the built-in gates  *)
(* (fcmcmp/processing.py), the configuration loader and the 96-well plate  *)
(* layout generator (fcmcmp/experiments.py).                               *)
(***************************************************************************)
EXTENDS Integers, Sequences, FiniteSets, TLC

VARIABLES
    \* -- the processing-step pipeline
    all_processing_steps,   \* processing.py: the module-level step registry
    steps,                  \* every step instance constructed so far (id -> attributes)
    ops,                    \* history: registry operations, oldest first
    experiments,            \* the experiment structure handed to the steps
    wells,                  \* the Well objects (id -> label, meta, data)
    run,                    \* position of the step loops that are executing
    wells0,                 \* history: the Well objects when the current run began
    trace,                  \* history: process_well calls of the current run
    apps,                   \* history: per well, its last two gate applications
    exc,                    \* the exception that ended the last run, or "none"
    nruns,                  \* number of runs started
    \* -- the plate-layout generator
    gen,                    \* define_96_well_plates: its arguments and its outcome
    \* -- the configuration loader
    config,                 \* the configuration file, the referenced file, the directories
    ld,                     \* load_experiments: its position, locals and outcome
    \* -- the well iterators and the layout cursors
    it,                     \* yield_wells / yield_unique_wells: the generator in progress
    cmp                     \* WellCursor96.__eq__: the last comparison and its outcome

pvars == <<all_processing_steps, steps, ops, experiments, wells, run, wells0,
           trace, apps, exc, nruns>>

lvars == <<config, ld>>

uvars == <<it, cmp>>

vars == <<pvars, gen, lvars, uvars>>

-----------------------------------------------------------------------------
(* Bounds *)

MaxOps  == 3      \* registry operations (constructions and clears)
MaxRuns == 2      \* runs of the pipeline or of a single step
MaxRows == 3      \* rows of a generated well table
MaxLayout == 4    \* axis names in a layout string
MaxPlates == 2    \* plates handed to the layout generator
MaxDocs == 2      \* documents of a configuration file
MaxAddr == 4      \* characters of a generated well address
MaxKeyword == 2   \* characters of a keyword given to the well iterators
MaxTrail == 1     \* characters appended to a label compared with a cursor

-----------------------------------------------------------------------------
(* Generic helpers *)

Range(s) == {s[i] : i \in DOMAIN s}

RECURSIVE SeqSum(_)
SeqSum(s) == IF s = <<>> THEN 0 ELSE Head(s) + SeqSum(Tail(s))

RECURSIVE Concat(_)
Concat(ss) == IF ss = <<>> THEN <<>> ELSE Head(ss) \o Concat(Tail(ss))

SeqsUpTo(S, n) == UNION {[1..k -> S] : k \in 0..n}

-----------------------------------------------------------------------------
(* Text: a string is the sequence of its characters *)

DigitChars == <<"0", "1", "2", "3", "4", "5", "6", "7", "8", "9">>
IsDigit(c) == \E k \in DOMAIN DigitChars : DigitChars[k] = c
DigitValue(c) == (CHOOSE k \in DOMAIN DigitChars : DigitChars[k] = c) - 1

\* None, where a plate name is expected
None == <<"<None>">>

\* define_96_well_plates has not been called
NoCall == [state |-> "none"]

\* load_experiments has not been called
NoLoad == config = <<>> /\ ld = [pc |-> "none"]

\* no generator has been created and no cursor has been compared
NoUse == it = [fn |-> "none"] /\ cmp = [state |-> "none"]

-----------------------------------------------------------------------------
(* Well addresses *)

\* str.rsplit('/', 1): the text before and after the last '/'
LastSlash(label) ==
    IF \E k \in DOMAIN label : label[k] = "/"
    THEN CHOOSE k \in DOMAIN label :
            label[k] = "/" /\ \A m \in DOMAIN label : label[m] = "/" => m <= k
    ELSE 0

parse_well_label(label) ==
    IF LastSlash(label) = 0
    THEN [plate |-> None, well |-> label]
    ELSE [plate |-> SubSeq(label, 1, LastSlash(label) - 1),
          well |-> SubSeq(label, LastSlash(label) + 1, Len(label))]

-----------------------------------------------------------------------------
(* Well tables: a table is a sequence of rows; a row carries its index     *)
(* label (idx) and one value per column.                                   *)

Columns == <<"Time", "FITC_A", "FSC_A", "SSC_A">>

Row(t, f, x, y) == [Time |-> t, FITC_A |-> f, FSC_A |-> x, SSC_A |-> y]

RowPool == {Row(0, 1, 1, 1), Row(1, -1, 2, 2), Row(2, 0, 3, 3), Row(3, 1, 2, 1)}

\* a freshly decoded table has the default index 0..n-1
WithIndex(rows) ==
    [i \in DOMAIN rows |->
        [idx |-> i - 1, Time |-> rows[i].Time, FITC_A |-> rows[i].FITC_A,
         FSC_A |-> rows[i].FSC_A, SSC_A |-> rows[i].SSC_A]]

\* the table of test_all_processing_steps / test_gate_early_events
TestTable ==
    WithIndex(<<Row(0, 1, 1, 1), Row(1, 1, 2, 2), Row(2, 1, 3, 3),
                Row(3, 1, 4, 4), Row(4, -1, 5, 5), Row(5, -1, 6, 6)>>)

TablePool == {WithIndex(rows) : rows \in SeqsUpTo(RowPool, MaxRows)} \cup {TestTable}

\* the tables of the wells of the multi-well structures, by well id
SmallTables ==
    <<TestTable,
      WithIndex(<<Row(0, 1, 1, 1), Row(3, 1, 2, 1), Row(2, 0, 3, 3)>>),
      WithIndex(<<Row(1, -1, 2, 2)>>)>>

\* well.meta['$TIMESTEP'] is a string; "" stands for a missing key
TimestepPool == {"2", "0.5", ""}

\* float(s) as an exact fraction
float(s) ==
    CASE s = "2"   -> [num |-> 2, den |-> 1]
      [] s = "1"   -> [num |-> 1, den |-> 1]
      [] s = "0.5" -> [num |-> 1, den |-> 2]

\* the positions of the selected rows taken for their index labels
IndexOf_positions(data, selection) == {j - 1 : j \in {j \in DOMAIN data : selection[j]}}

\* well.data.index[selection]: the index labels of the selected rows
IndexOf(data, selection) == {data[i].idx : i \in {j \in DOMAIN data : selection[j]}}

\* DataFrame.drop(labels): every row whose index label is in labels goes
Drop(data, labels) == SelectSeq(data, LAMBDA r : r.idx \notin labels)

-----------------------------------------------------------------------------
(* Step instances.  A step is a record of its class and its attributes;    *)
(* an attribute a class does not have keeps a fixed filler value.          *)

GateClasses == {"GateNonPositiveEvents", "GateSmallCells", "GateEarlyEvents"}

\* classes that leave the operation to the base class: ProcessingStep and a
\* subclass of it without process_well, GatingStep and a subclass of it
\* without gate
AbstractSteps == {"ProcessingStep", "MyStep"}
AbstractGates == {"GatingStep", "MyGate"}

\* NotImplementedError(*args) as the text of the exception
NotImplementedError(args) ==
    CASE args = <<>>                 -> "NotImplementedError"
      [] args = <<"ProcessingStep">> -> "NotImplementedError: ProcessingStep"
      [] args = <<"MyStep">>         -> "NotImplementedError: MyStep"
      [] args = <<"GatingStep">>     -> "NotImplementedError: GatingStep"
      [] args = <<"MyGate">>         -> "NotImplementedError: MyGate"

\* the attributes the __init__ of each class sets (ProcessingStep.__new__
\* takes no argument, so a step is always constructed with the defaults)
NewStep(cls) ==
    [cls |-> cls,
     channels |-> <<>>,                                   \* None
     threshold |-> IF cls = "GateSmallCells" THEN 40 ELSE 0,
     throwaway_secs |-> IF cls = "GateEarlyEvents" THEN 2 ELSE 0]

\* values the callers assign to the attributes after construction
ChannelChoices   == {<<"FITC_A">>}
ThresholdChoices == {50}
ThrowawayChoices == {4}

AttrChoices(step) ==
    CASE step.cls = "GateNonPositiveEvents" ->
            {[step EXCEPT !.channels = c] : c \in ChannelChoices}
      [] step.cls = "GateSmallCells" ->
            {[step EXCEPT !.threshold = t] : t \in ThresholdChoices}
      [] step.cls = "GateEarlyEvents" ->
            {[step EXCEPT !.throwaway_secs = t] : t \in ThrowawayChoices}

-----------------------------------------------------------------------------
(* The gates.  gate(step, well) is the set of results the call can have:   *)
(* a result is an exception name, or "none" and the boolean row mask.      *)

Mask(m)   == [exc |-> "none", mask |-> m]
Raise(e)  == [exc |-> e, mask |-> <<>>]

GateNonPositiveEvents_gate(step, well) ==
    LET channels == IF step.channels = <<>> THEN Columns ELSE step.channels
    IN  {Mask([i \in DOMAIN well.data |->
                \E k \in DOMAIN channels : well.data[i][channels[k]] <= 0])}

\* time counted from the first event of the table instead of from zero
GateEarlyEvents_gate_relative(step, well) ==
    IF well.meta = ""
    THEN {Raise("KeyError")}
    ELSE LET ts == float(well.meta)
             t0 == IF well.data = <<>> THEN 0 ELSE well.data[1].Time
         IN  {Mask([i \in DOMAIN well.data |->
                     (well.data[i].Time - t0) * ts.num < step.throwaway_secs * ts.den])}

GateEarlyEvents_gate(step, well) ==
    IF well.meta = ""
    THEN {Raise("KeyError")}
    ELSE LET ts == float(well.meta)
         IN  {Mask([i \in DOMAIN well.data |->
                     well.data[i].Time * ts.num < step.throwaway_secs * ts.den])}

\* the k-th smallest element of a sequence of integers
KthSmallest(z, k) ==
    CHOOSE v \in Range(z) :
        /\ Cardinality({i \in DOMAIN z : z[i] < v}) < k
        /\ k <= Cardinality({i \in DOMAIN z : z[i] <= v})

\* 100 * Sxx * np.percentile(sizes, q), with z = Sxx * sizes (linear interpolation)
Percentile100(z, q) ==
    LET pos == (Len(z) - 1) * q
        lo  == pos \div 100
        r   == pos % 100
    IN  IF r = 0
        THEN 100 * KthSmallest(z, lo + 1)
        ELSE 100 * KthSmallest(z, lo + 1)
               + r * (KthSmallest(z, lo + 2) - KthSmallest(z, lo + 1))

GateSmallCells_gate(step, well) ==
    LET d   == well.data
        n   == Len(d)
        fsc == [i \in DOMAIN d |-> d[i].FSC_A]
        ssc == [i \in DOMAIN d |-> d[i].SSC_A]
        \* linregress: m = Sxy / Sxx
        Sxx == n * SeqSum([i \in DOMAIN d |-> fsc[i] * fsc[i]]) - SeqSum(fsc) * SeqSum(fsc)
        Sxy == n * SeqSum([i \in DOMAIN d |-> fsc[i] * ssc[i]]) - SeqSum(fsc) * SeqSum(ssc)
        \* sizes = fsc + m * ssc, scaled by Sxx > 0
        z   == [i \in DOMAIN d |-> fsc[i] * Sxx + Sxy * ssc[i]]
    IN  IF Sxx = 0
        THEN \* no slope: linregress raises, or yields nan and nothing compares below nan
             {Raise("ValueError"), Mask([i \in DOMAIN d |-> FALSE])}
        ELSE {Mask([i \in DOMAIN d |-> 100 * z[i] < Percentile100(z, step.threshold)])}

gate(step, well) ==
    CASE step.cls = "GateNonPositiveEvents" -> GateNonPositiveEvents_gate(step, well)
      [] step.cls = "GateSmallCells"        -> GateSmallCells_gate(step, well)
      [] step.cls = "GateEarlyEvents"       -> GateEarlyEvents_gate(step, well)
      [] step.cls \in AbstractGates         -> {Raise(NotImplementedError(<<>>))}

\* GatingStep.process_well: the results of the call, each an exception name
\* or "none" and the replacement table
GatingStep_process_well(step, well) ==
    {IF g.exc = "none"
     THEN [exc |-> "none", data |-> Drop(well.data, IndexOf(well.data, g.mask))]
     ELSE [exc |-> g.exc, data |-> well.data] : g \in gate(step, well)}

\* ProcessingStep.process_well, unless the class of the step is a gate
process_well(step, well) ==
    IF step.cls \in AbstractSteps
    THEN {[exc |-> NotImplementedError(<<step.cls>>), data |-> well.data]}
    ELSE GatingStep_process_well(step, well)

-----------------------------------------------------------------------------
(* The experiment structure and the step loops *)

Well(label, meta, data) == [label |-> label, meta |-> meta, data |-> data]

Experiment(label, conds) == [label |-> label, wells |-> conds]
Condition(name, ws)      == [condition |-> name, wells |-> ws]

\* the wells in the order the loops of __call__ and process_experiment reach
\* them: each experiment, each of its conditions, each well of the condition
WellPositions(expts) ==
    Concat([e \in DOMAIN expts |->
        Concat([c \in DOMAIN expts[e].wells |->
            [i \in DOMAIN expts[e].wells[c].wells |->
                [e |-> e, c |-> c, i |-> i, w |-> expts[e].wells[c].wells[i]]]])])

Idle == [active |-> FALSE, all |-> FALSE, steps |-> <<>>, recs |-> <<>>, at |-> 0,
         s |-> 0, p |-> 0]

\* the loops the wrong way round: every step on a well before the next well
NextPosition_interleaved(s, p, nsteps, nwells) ==
    IF s < nsteps
    THEN [s |-> s + 1, p |-> p, done |-> FALSE]
    ELSE [s |-> 1, p |-> p + 1, done |-> p + 1 > nwells]

\* the position after process_well has returned for step s and well p:
\* the well loops are inside the step loop
NextPosition(s, p, nsteps, nwells) ==
    IF p < nwells
    THEN [s |-> s, p |-> p + 1, done |-> FALSE]
    ELSE [s |-> s + 1, p |-> 1, done |-> s + 1 > nsteps]

\* the loops are entered over the given steps (nothing to do without steps
\* or without wells)
Entered(all, ss) ==
    [active |-> ss # <<>> /\ WellPositions(experiments) # <<>>,
     all |-> all, steps |-> ss, recs |-> [i \in DOMAIN ss |-> steps[ss[i]]],
     at |-> Len(ops), s |-> 1, p |-> 1]

\* ProcessingStep.__new__ (and the __init__ of the class)
ProcessingStep_new(cls) ==
    /\ ~run.active
    /\ Len(ops) < MaxOps
    /\ steps' = Append(steps, NewStep(cls))
    /\ all_processing_steps' = Append(all_processing_steps, Len(steps) + 1)
    /\ ops' = Append(ops, [op |-> "new", id |-> Len(steps) + 1])
    /\ UNCHANGED <<experiments, wells, run, wells0, trace, apps, exc, nruns, gen, lvars, uvars>>

\* the caller assigns an attribute of a step it holds
SetAttribute(id) ==
    /\ ~run.active
    /\ steps[id] = NewStep(steps[id].cls)
    /\ \E a \in AttrChoices(steps[id]) : steps' = [steps EXCEPT ![id] = a]
    /\ UNCHANGED <<all_processing_steps, ops, experiments, wells, run, wells0,
                   trace, apps, exc, nruns, gen, lvars, uvars>>

\* the assignment without the global statement: the registry is kept
clear_all_processing_steps_local ==
    /\ ~run.active
    /\ Len(ops) < MaxOps
    /\ all_processing_steps' = all_processing_steps
    /\ ops' = Append(ops, [op |-> "clear", id |-> 0])
    /\ UNCHANGED <<steps, experiments, wells, run, wells0, trace, apps, exc, nruns, gen, lvars, uvars>>

clear_all_processing_steps ==
    /\ ~run.active
    /\ Len(ops) < MaxOps
    /\ all_processing_steps' = <<>>
    /\ ops' = Append(ops, [op |-> "clear", id |-> 0])
    /\ UNCHANGED <<steps, experiments, wells, run, wells0, trace, apps, exc, nruns, gen, lvars, uvars>>

run_all_processing_steps ==
    /\ ~run.active
    /\ nruns < MaxRuns
    /\ nruns' = nruns + 1
    /\ run' = Entered(TRUE, all_processing_steps)
    /\ wells0' = wells
    /\ trace' = <<>>
    /\ exc' = "none"
    /\ UNCHANGED <<all_processing_steps, steps, ops, experiments, wells, apps, gen, lvars, uvars>>

\* ProcessingStep.__call__: step(experiments), called directly on a step the
\* caller holds
ProcessingStep_call(id) ==
    /\ ~run.active
    /\ nruns < MaxRuns
    /\ nruns' = nruns + 1
    /\ run' = Entered(FALSE, <<id>>)
    /\ wells0' = wells
    /\ trace' = <<>>
    /\ exc' = "none"
    /\ UNCHANGED <<all_processing_steps, steps, ops, experiments, wells, apps, gen, lvars, uvars>>

\* one pass of the innermost loop of process_experiment: process_well on the
\* current well, the replacement of its data, and the move to the next well
process_experiment ==
    /\ run.active
    /\ LET pos  == WellPositions(experiments)
           w    == pos[run.p].w
           id   == run.steps[run.s]
           next == NextPosition(run.s, run.p, Len(run.steps), Len(pos))
       IN  \E r \in process_well(steps[id], wells[w]) :
             /\ wells' = [wells EXCEPT ![w].data = r.data]
             /\ exc' = r.exc
             /\ trace' = Append(trace, [s |-> run.s, id |-> id, p |-> run.p, w |-> w,
                                        exc |-> r.exc])
             /\ apps' = [apps EXCEPT ![w] =
                            (IF Len(@) = 2 THEN Tail(@) ELSE @) \o
                            <<[step |-> steps[id], before |-> wells[w].data,
                               after |-> r.data, exc |-> r.exc]>>]
             /\ run' = IF r.exc # "none" \/ next.done
                       THEN [run EXCEPT !.active = FALSE]
                       ELSE [run EXCEPT !.s = next.s, !.p = next.p]
    /\ UNCHANGED <<all_processing_steps, steps, ops, experiments, wells0, nruns, gen, lvars, uvars>>

-----------------------------------------------------------------------------
(* The pipeline: steps are constructed, configured and cleared, and the    *)
(* pipeline or a single step is run over a small experiment structure.     *)

\* dummy_data() of the tests: one experiment, one condition, one well
OneWell == <<Experiment("dummy", <<Condition("dummy", <<1>>)>>)>>

\* two experiments; the second holds two wells in two conditions
ThreeWells ==
    <<Experiment("sgGFP", <<Condition("before", <<1>>)>>),
      Experiment("sgRFP", <<Condition("before", <<2>>), Condition("after", <<3>>)>>)>>

\* the same Well object listed under two conditions
SharedWell ==
    <<Experiment("sgGFP", <<Condition("before", <<1>>), Condition("after", <<1, 2>>)>>)>>

WellLabels == <<"A1", "B1", "p2/A1">>

WellIds(expts) == {WellPositions(expts)[i].w : i \in DOMAIN WellPositions(expts)}

InitRegistry ==
    /\ all_processing_steps = <<>>
    /\ steps = <<>>
    /\ ops = <<>>

InitRun ==
    /\ run = Idle
    /\ wells0 = wells
    /\ trace = <<>>
    /\ apps = [w \in DOMAIN wells |-> <<>>]
    /\ exc = "none"
    /\ nruns = 0

InitPipeline ==
    /\ gen = NoCall
    /\ NoLoad
    /\ NoUse
    /\ InitRegistry
    /\ experiments \in {ThreeWells, SharedWell, <<>>}
    /\ \E ts \in {"2"} :
         wells = [w \in WellIds(experiments) |-> Well(WellLabels[w], ts, SmallTables[w])]
    /\ InitRun

NextPipeline ==
    \/ \E cls \in GateClasses : ProcessingStep_new(cls)
    \/ \E id \in DOMAIN steps : SetAttribute(id)
    \/ clear_all_processing_steps
    \/ run_all_processing_steps
    \/ process_experiment

SpecPipeline == InitPipeline /\ [][NextPipeline]_vars

-----------------------------------------------------------------------------
(* A single gate: one configured gate is called on the one well of         *)
(* dummy_data(), more than once.                                           *)

GatePool ==
    {[NewStep("GateNonPositiveEvents") EXCEPT !.channels = c] :
        c \in {<<>>, <<"FITC_A">>, <<"FSC_A", "FITC_A">>}}
    \cup {[NewStep("GateSmallCells") EXCEPT !.threshold = t] : t \in {0, 40, 50, 100}}
    \cup {[NewStep("GateEarlyEvents") EXCEPT !.throwaway_secs = t] : t \in {0, 2, 4}}

InitGate ==
    /\ gen = NoCall
    /\ NoLoad
    /\ NoUse
    /\ steps \in {<<g>> : g \in GatePool}
    /\ all_processing_steps = <<1>>
    /\ ops = <<[op |-> "new", id |-> 1]>>
    /\ experiments = OneWell
    /\ wells \in {<<Well("A1", ts, d)>> : ts \in TimestepPool, d \in TablePool}
    /\ InitRun

NextGate ==
    \/ \E id \in DOMAIN steps : ProcessingStep_call(id)
    \/ process_experiment

SpecGate == InitGate /\ [][NextGate]_vars

-----------------------------------------------------------------------------
(* Steps that do not implement their operation, alone or after a gate, in  *)
(* the pipeline or called directly.                                        *)

AbstractPool ==
    {<<NewStep(c)>> : c \in AbstractSteps \cup AbstractGates}
    \cup {<<NewStep("GateNonPositiveEvents"), NewStep(c)>> : c \in AbstractSteps \cup AbstractGates}

InitAbstract ==
    /\ gen = NoCall
    /\ NoLoad
    /\ NoUse
    /\ steps \in AbstractPool
    /\ all_processing_steps = [i \in DOMAIN steps |-> i]
    /\ ops = [i \in DOMAIN steps |-> [op |-> "new", id |-> i]]
    /\ experiments \in {OneWell, ThreeWells, SharedWell, <<>>}
    /\ \E ts \in TimestepPool :
         wells = [w \in WellIds(experiments) |-> Well(WellLabels[w], ts, SmallTables[w])]
    /\ InitRun

NextAbstract ==
    \/ run_all_processing_steps
    \/ \E id \in DOMAIN steps : ProcessingStep_call(id)
    \/ process_experiment

SpecAbstract == InitAbstract /\ [][NextAbstract]_vars

-----------------------------------------------------------------------------
(* define_96_well_plates.  The layout string is held as the list its       *)
(* split('/') yields; the plate arguments are None or present.             *)

AxisNames == {"row", "col", "plate", "well"}

PlateNames == {<<"p", "1">>, <<"p", "2">>, <<"p", "1", "0">>}

\* the number a name ends in: the key natsorted orders these names by
RECURSIVE NumberIn(_, _)
NumberIn(name, acc) ==
    IF name = <<>> THEN acc
    ELSE IF IsDigit(Head(name))
         THEN NumberIn(Tail(name), 10 * acc + DigitValue(Head(name)))
         ELSE NumberIn(Tail(name), acc)

NatKey(name) == IF name = None THEN 0 ELSE NumberIn(name, 0)

\* natsorted(plates): the keys in natural order
RECURSIVE natsorted(_)
natsorted(keys) ==
    IF keys = {} THEN <<>>
    ELSE LET least == CHOOSE k \in keys : \A m \in keys : NatKey(k) <= NatKey(m)
         IN  <<least>> \o natsorted(keys \ {least})

\* a dict display: a later entry for the same key replaces an earlier one
Dict3(k1, v1, k2, v2, k3, v3) == (k3 :> v3) @@ (k2 :> v2) @@ (k1 :> v1)

\* the (row, col, plate) of index i, or the exception the lookup raises
Coordinates(i, divisors, strides, plate_order) ==
    IF ~({"row", "col", "plate"} \subseteq DOMAIN divisors)
    THEN [exc |-> "KeyError"]
    ELSE LET k == (i \div divisors["plate"]) % strides["plate"]
         IN  IF k + 1 \notin DOMAIN plate_order
             THEN [exc |-> "IndexError"]
             ELSE [exc |-> "none",
                   index |-> i,
                   row |-> (i \div divisors["row"]) % strides["row"],
                   col |-> (i \div divisors["col"]) % strides["col"],
                   plate |-> plate_order[k + 1]]

\* the loop over range(96 * len(plates)): the cursors made before the first
\* exception, and that exception
Cursors(n, divisors, strides, plate_order) ==
    LET c == [i \in 1..n |-> Coordinates(i - 1, divisors, strides, plate_order)]
        bad == {i \in 1..n : c[i].exc # "none"}
        first == IF bad = {} THEN n + 1 ELSE CHOOSE i \in bad : \A j \in bad : i <= j
    IN  [exc |-> IF bad = {} THEN "none" ELSE c[first].exc,
         cursors |-> SubSeq(c, 1, first - 1)]

\* the slowest axis divided by the stride of the middle axis alone
Divisors_no_product(axes, strides) ==
    Dict3(axes[1], 1,
          axes[2], strides[axes[1]],
          axes[3], strides[axes[2]])

\* the cumulative products of the strides of the faster axes
Divisors(axes, strides) ==
    Dict3(axes[1], 1,
          axes[2], strides[axes[1]],
          axes[3], strides[axes[1]] * strides[axes[2]])

define_96_well_plates ==
    /\ gen.state = "args"
    /\ LET plates == IF gen.plates_given THEN gen.plates ELSE {None}
           plate_order == IF gen.order_given THEN gen.plate_order
                          ELSE natsorted(plates)
           axes == IF Len(gen.layout) = 2 THEN Append(gen.layout, "plate")
                   ELSE gen.layout
           strides == [col |-> 12, row |-> 8, plate |-> Cardinality(plates)]
       IN  IF gen.plate_given /\ gen.plates_given
           THEN gen' = [gen EXCEPT !.state = "done", !.exc = "UsageError: both"]
           ELSE IF Range(axes) # {"row", "col", "plate"}
           THEN gen' = [gen EXCEPT !.state = "done", !.exc = "UsageError: invalid layout"]
           ELSE LET r == Cursors(96 * Cardinality(plates),
                                 Divisors(axes, strides), strides, plate_order)
                IN  gen' = [gen EXCEPT !.state = "done", !.exc = r.exc,
                                       !.nplates = Cardinality(plates),
                                       !.cursors = r.cursors]
    /\ UNCHANGED <<pvars, lvars, uvars>>

LayoutPool == UNION {[1..k -> AxisNames] : k \in 1..MaxLayout}

PlatesPool == {ps \in SUBSET PlateNames : Cardinality(ps) <= MaxPlates}

\* plate orders the caller may pass: the names, the natural first one first
PlateOrders(ps) ==
    {o \in [1..Cardinality(ps) -> ps] :
        o[1] = CHOOSE q \in ps : \A m \in ps : NatKey(q) <= NatKey(m)}

\* the plate arguments of a call: no plate, one plate, both (an error), a
\* mapping of plates with the default order, or with an explicit order
PlateArgs ==
    {[plate_given |-> pg, plates_given |-> FALSE, plates |-> {},
      order_given |-> FALSE, plate_order |-> <<>>] : pg \in BOOLEAN}
    \cup {[plate_given |-> TRUE, plates_given |-> TRUE, plates |-> {<<"p", "1">>},
           order_given |-> FALSE, plate_order |-> <<>>]}
    \cup {[plate_given |-> FALSE, plates_given |-> TRUE, plates |-> ps,
           order_given |-> FALSE, plate_order |-> <<>>] : ps \in PlatesPool}
    \cup UNION {{[plate_given |-> FALSE, plates_given |-> TRUE, plates |-> ps,
                  order_given |-> TRUE, plate_order |-> o] : o \in PlateOrders(ps)} :
                    ps \in {q \in PlatesPool : Cardinality(q) >= 2}}

LayoutArgs ==
    {[state |-> "args", layout |-> layout, plate_given |-> a.plate_given,
      plates_given |-> a.plates_given, plates |-> a.plates,
      order_given |-> a.order_given, plate_order |-> a.plate_order,
      exc |-> "none", nplates |-> 0, cursors |-> <<>>] :
        layout \in LayoutPool, a \in PlateArgs}

InitLayout ==
    /\ NoLoad
    /\ NoUse
    /\ InitRegistry
    /\ experiments = <<>>
    /\ wells = <<>>
    /\ InitRun
    /\ gen \in LayoutArgs

NextLayout == define_96_well_plates

SpecLayout == InitLayout /\ [][NextLayout]_vars

-----------------------------------------------------------------------------
(* load_experiments.  A document is None or a mapping; a mapping is held   *)
(* as the set of its keys and the value of each key it has.  A directory   *)
(* is the list of its *.fcs files, a file the list of the tokens between   *)
(* the underscores of its name: '*_<code>_*.fcs' matches a file with an    *)
(* inner token equal to the code.                                          *)

A1 == <<"A", "1">>
B1 == <<"B", "1">>

NoExc == [kind |-> "none", arg |-> <<>>]
Exc(kind, arg) == [kind |-> kind, arg |-> arg]

Address(label) == [kind |-> "str", label |-> label, dir |-> "", file |-> 0]
LoadedWell(label, dir, file) == [kind |-> "Well", label |-> label, dir |-> dir, file |-> file]

Mapping(keys, plates, plate, from, label, ws) ==
    [null |-> FALSE, keys |-> keys, plates |-> plates, plate |-> plate,
     from |-> from, label |-> label, wells |-> ws]

NullDocument == [null |-> TRUE, keys |-> {}, plates |-> <<>>, plate |-> "",
                 from |-> "", label |-> "", wells |-> <<>>]

\* a dict as the list of its items
HasKey(d, k) == \E i \in DOMAIN d : d[i].key = k
Lookup(d, k) == d[CHOOSE i \in DOMAIN d : d[i].key = k].value

\* lines 50-59: the plate table, and the header document removed
plate_table(documents, inferred_is_dir, inferred_path) ==
    LET first == documents[1]
    IN  IF first.null
        THEN [exc |-> Exc("TypeError", <<>>), plates |-> <<>>, documents |-> documents]
        ELSE IF "plates" \in first.keys \/ "plate" \in first.keys
        THEN [exc |-> IF Cardinality(first.keys) > 1
                      THEN Exc("UsageError: Too many fields in 'plates' header.", <<>>)
                      ELSE NoExc,
              plates |-> IF "plates" \in first.keys THEN first.plates
                         ELSE <<[key |-> None, value |-> first.plate]>>,
              documents |-> IF Cardinality(first.keys) > 1 THEN documents
                            ELSE Tail(documents)]
        ELSE [exc |-> NoExc,
              plates |-> IF inferred_is_dir
                         THEN <<[key |-> None, value |-> inferred_path]>>
                         ELSE <<>>,
              documents |-> documents]

\* plate_path.glob(well_glob.format(well)): the files with the inner token
Glob(dir, well) ==
    {f \in DOMAIN dir : \E t \in DOMAIN dir[f] : dir[f][t] = well}

\* more than one match is not refused: the first file is taken
load_well_first_match(item, plates, dirs) ==
    IF item.kind = "Well"
    THEN [exc |-> NoExc, well |-> item, globbed |-> FALSE]
    ELSE LET parsed == parse_well_label(item.label)
         IN  IF ~HasKey(plates, parsed.plate)
             THEN [exc |-> IF parsed.plate # None
                           THEN Exc("UsageError: Plate not defined.", parsed.plate)
                           ELSE Exc("UsageError: No default plate defined.", <<>>),
                   well |-> item, globbed |-> FALSE]
             ELSE LET plate_path == Lookup(plates, parsed.plate)
                      well_paths == Glob(dirs[plate_path], parsed.well)
                  IN  IF Cardinality(well_paths) = 0
                      THEN [exc |-> Exc("UsageError: No *.fcs files found for well", item.label),
                            well |-> item, globbed |-> TRUE]
                      ELSE [exc |-> NoExc,
                            well |-> LoadedWell(item.label, plate_path,
                                        CHOOSE f \in well_paths : \A g \in well_paths : f <= g),
                            globbed |-> TRUE]

\* lines 70-102
load_well(item, plates, dirs) ==
    IF item.kind = "Well"
    THEN [exc |-> NoExc, well |-> item, globbed |-> FALSE]
    ELSE LET parsed == parse_well_label(item.label)
         IN  IF ~HasKey(plates, parsed.plate)
             THEN [exc |-> IF parsed.plate # None
                           THEN Exc("UsageError: Plate not defined.", parsed.plate)
                           ELSE Exc("UsageError: No default plate defined.", <<>>),
                   well |-> item, globbed |-> FALSE]
             ELSE LET plate_path == Lookup(plates, parsed.plate)
                      well_paths == Glob(dirs[plate_path], parsed.well)
                  IN  IF Cardinality(well_paths) = 0
                      THEN [exc |-> Exc("UsageError: No *.fcs files found for well", item.label),
                            well |-> item, globbed |-> TRUE]
                      ELSE IF Cardinality(well_paths) > 1
                      THEN [exc |-> Exc("UsageError: Multiple *.fcs files found for well",
                                        item.label),
                            well |-> item, globbed |-> TRUE]
                      ELSE [exc |-> NoExc,
                            well |-> LoadedWell(item.label, plate_path,
                                                CHOOSE f \in well_paths : TRUE),
                            globbed |-> TRUE]

\* lines 128-129: every name of every condition goes through load_well, in
\* order, up to the first one that raises
load_wells(ws, plates, dirs) ==
    LET items == Concat([c \in DOMAIN ws |->
                    [i \in DOMAIN ws[c].wells |-> [c |-> c, i |-> i, item |-> ws[c].wells[i]]]])
        res   == [k \in DOMAIN items |-> load_well(items[k].item, plates, dirs)]
        bad   == {k \in DOMAIN items : res[k].exc # NoExc}
        first == IF bad = {} THEN Len(items) + 1
                 ELSE CHOOSE k \in bad : \A m \in bad : k <= m
    IN  [exc |-> IF bad = {} THEN NoExc ELSE res[first].exc,
         calls |-> [k \in 1..(IF bad = {} THEN Len(items) ELSE first) |->
                      [item |-> items[k].item, exc |-> res[k].exc, well |-> res[k].well,
                       globbed |-> res[k].globbed]],
         wells |-> [c \in DOMAIN ws |->
                      [condition |-> ws[c].condition,
                       wells |-> [i \in DOMAIN ws[c].wells |->
                                    load_well(ws[c].wells[i], plates, dirs).well]]]]

\* lines 105-131 for one document; referenced is the outcome of
\* load_experiments on the file a 'from' names
load_document(experiment, plates, dirs, referenced) ==
    LET none == [exc |-> NoExc, calls |-> <<>>, experiment |-> experiment]
    IN  IF experiment.null \/ experiment.keys = {}
        THEN [none EXCEPT !.exc = Exc("UsageError: An empty experiment was found.", <<>>)]
        ELSE IF "from" \in experiment.keys /\ "label" \notin experiment.keys
        THEN [none EXCEPT !.exc = Exc("KeyError", <<>>)]
        ELSE IF "from" \in experiment.keys /\ referenced.exc # NoExc
        THEN [none EXCEPT !.exc = referenced.exc]
        ELSE IF "from" \in experiment.keys
                /\ ~\E k \in DOMAIN referenced.experiments :
                        referenced.experiments[k].label = experiment.label
        THEN [none EXCEPT !.exc = Exc("UsageError: No experiment named", <<>>)]
        ELSE LET e == IF "from" \in experiment.keys
                      THEN referenced.experiments[
                              CHOOSE k \in DOMAIN referenced.experiments :
                                /\ referenced.experiments[k].label = experiment.label
                                /\ \A m \in 1..(k - 1) :
                                     referenced.experiments[m].label # experiment.label]
                      ELSE experiment
             IN  IF "label" \notin e.keys
                 THEN [none EXCEPT !.exc = Exc("UsageError: The following experiment is missing a label", <<>>)]
                 ELSE IF "wells" \notin e.keys
                 THEN [none EXCEPT !.exc = Exc("UsageError: The following experiment doesn't have any wells", <<>>)]
                 ELSE LET r == load_wells(e.wells, plates, dirs)
                      IN  [exc |-> r.exc, calls |-> r.calls,
                           experiment |-> [e EXCEPT !.wells = r.wells]]

\* the loop over the documents, run to its end
RECURSIVE load_documents(_, _, _, _)
load_documents(documents, plates, dirs, referenced) ==
    IF documents = <<>> THEN [exc |-> NoExc, experiments |-> <<>>]
    ELSE LET r == load_document(Head(documents), plates, dirs, referenced)
         IN  IF r.exc # NoExc THEN [exc |-> r.exc, experiments |-> <<>>]
             ELSE LET rest == load_documents(Tail(documents), plates, dirs, referenced)
                  IN  [exc |-> rest.exc,
                       experiments |-> IF rest.exc # NoExc THEN <<>>
                                       ELSE <<r.experiment>> \o rest.experiments]

\* load_experiments on a file that names no other file
load_experiments(file, dirs) ==
    IF ~file.exists
    THEN [exc |-> Exc("FileNotFoundError", <<>>), experiments |-> <<>>]
    ELSE IF file.documents = <<>>
    THEN [exc |-> Exc("UsageError: is empty.", <<>>), experiments |-> <<>>]
    ELSE LET t == plate_table(file.documents, file.inferred_is_dir, file.inferred_path)
         IN  IF t.exc # NoExc THEN [exc |-> t.exc, experiments |-> <<>>]
             ELSE load_documents(t.documents, t.plates, dirs,
                                 [exc |-> Exc("FileNotFoundError", <<>>),
                                  experiments |-> <<>>])

\* lines 16-59: the documents are read and the plate table is built
load_experiments_begin ==
    /\ ld.pc = "call"
    /\ IF config.file.documents = <<>>
       THEN ld' = [ld EXCEPT !.pc = "raised", !.exc = Exc("UsageError: is empty.", <<>>)]
       ELSE \E t \in {plate_table(config.file.documents, config.file.inferred_is_dir,
                                  config.file.inferred_path)} :
                ld' = [ld EXCEPT !.pc = IF t.exc # NoExc THEN "raised" ELSE "loop",
                                 !.exc = t.exc,
                                 !.tabled = t.exc = NoExc,
                                 !.plates = t.plates,
                                 !.rest = t.documents,
                                 !.documents = t.documents]
    /\ UNCHANGED <<pvars, gen, config, uvars>>

\* one pass of the loop over the documents
load_experiments_document ==
    /\ ld.pc = "loop"
    /\ ld.documents # <<>>
    /\ \E r \in {load_document(Head(ld.documents), ld.plates, config.dirs,
                               load_experiments(config.other, config.dirs))} :
           ld' = [ld EXCEPT !.pc = IF r.exc # NoExc THEN "raised" ELSE "loop",
                            !.exc = r.exc,
                            !.current = Head(ld.documents),
                            !.calls = r.calls,
                            !.documents = IF r.exc # NoExc THEN @ ELSE Tail(@),
                            !.experiments = IF r.exc # NoExc THEN @
                                            ELSE Append(@, r.experiment)]
    /\ UNCHANGED <<pvars, gen, config, uvars>>

\* the loop is over: the experiments are returned
load_experiments_return ==
    /\ ld.pc = "loop"
    /\ ld.documents = <<>>
    /\ ld' = [ld EXCEPT !.pc = "returned"]
    /\ UNCHANGED <<pvars, gen, config, uvars>>

NextLoad ==
    \/ load_experiments_begin
    \/ load_experiments_document
    \/ load_experiments_return

Called == [pc |-> "call", exc |-> NoExc, tabled |-> FALSE, plates |-> <<>>,
           rest |-> <<>>, documents |-> <<>>, current |-> NullDocument, calls |-> <<>>,
           experiments |-> <<>>]

-----------------------------------------------------------------------------
(* Configurations: a file of documents, the file a 'from' names, and the   *)
(* plate directories.                                                      *)

Wells1 == <<Condition("before", <<Address(A1)>>), Condition("after", <<Address(B1)>>)>>
Wells2 == <<Condition("before", <<Address(<<"p", "1", "/", "A", "1">>),
                                  Address(<<"p", "2", "/", "A", "1">>)>>)>>

TwoPlates == <<[key |-> <<"p", "1">>, value |-> "d1"], [key |-> <<"p", "2">>, value |-> "d2"]>>

\* a mapping with the given keys; every key it has takes the given value
Document(keys, ws) == Mapping(keys, TwoPlates, "d1", "other.yml", "sgGFP", ws)

HeaderPool ==
    {Document(k, Wells1) :
        k \in {{"plates"}, {"plate"}, {"plates", "plate"}, {"plates", "label"},
               {"plate", "label", "wells"}}}

ExperimentPool ==
    {Document(k, Wells1) : k \in SUBSET {"from", "label", "wells"}}
    \cup {Document(k \cup {"wells"}, Wells2) : k \in SUBSET {"from", "label"}}

DocumentPool == HeaderPool \cup ExperimentPool \cup {NullDocument}

File(documents, inferred_is_dir, inferred_path) ==
    [exists |-> TRUE, documents |-> documents, inferred_is_dir |-> inferred_is_dir,
     inferred_path |-> inferred_path]

\* the file a 'from' names: a good one, one whose experiment has no label,
\* one without the experiment asked for
OtherPool ==
    {File(<<Document({"label", "wells"}, Wells1)>>, TRUE, "other"),
     File(<<Document({"wells"}, Wells1)>>, TRUE, "other"),
     File(<<[Document({"label", "wells"}, Wells1) EXCEPT !.label = "sgRFP"]>>, TRUE, "other")}

NameFile(ts) == [i \in DOMAIN ts |-> <<ts[i]>>]

\* every plate holds one file per well / the default plate holds two files
\* for A1 and none for B1, and the second plate is empty
DirsPool ==
    {[plate_1 |-> NameFile(<<A1, B1>>), d1 |-> NameFile(<<A1, B1>>),
      d2 |-> NameFile(<<A1, B1>>), other |-> NameFile(<<A1, B1>>)],
     [plate_1 |-> NameFile(<<A1, A1>>), d1 |-> NameFile(<<A1, B1>>),
      d2 |-> NameFile(<<>>), other |-> NameFile(<<A1, B1>>)]}

InitLoad ==
    /\ gen = NoCall
    /\ NoUse
    /\ InitRegistry
    /\ experiments = <<>>
    /\ wells = <<>>
    /\ InitRun
    /\ \E documents \in SeqsUpTo(DocumentPool, MaxDocs) \ {<<>>},
          inferred_is_dir \in BOOLEAN, other \in OtherPool, dirs \in DirsPool :
         config = [file |-> File(documents, inferred_is_dir, "plate_1"),
                   other |-> other, dirs |-> dirs]
    /\ ld = Called

SpecLoad == InitLoad /\ [][NextLoad]_vars

\* one experiment with one well address, over every short address
AddressChars == {"/", "p", "A", "I", "1"}

AddressPool == SeqsUpTo(AddressChars, MaxAddr)

\* plate tables: the inferred directory, none at all, or named plates
\* (one of them named by the empty string)
AddressHeaders ==
    {[header |-> <<>>, inferred_is_dir |-> TRUE],
     [header |-> <<>>, inferred_is_dir |-> FALSE],
     [header |-> <<Mapping({"plates"},
                           <<[key |-> <<"p">>, value |-> "d1"], [key |-> <<>>, value |-> "d2"]>>,
                           "", "", "", <<>>)>>,
      inferred_is_dir |-> TRUE]}

AddressDirs ==
    {[plate_1 |-> NameFile(<<A1, <<"A", "1", "1">>, <<"I", "1">>, <<>>, <<"A">>>>),
      d1 |-> NameFile(<<A1, A1, <<"I", "1">>, <<>>>>),
      d2 |-> NameFile(<<A1>>),
      other |-> NameFile(<<>>)],
     [plate_1 |-> NameFile(<<A1, A1>>) \o <<<<<<"A", "1", "1">>, <<"1">>>>>>,
      d1 |-> NameFile(<<<<"A", "1", "1">>>>),
      d2 |-> NameFile(<<>>),
      other |-> NameFile(<<>>)]}

InitAddress ==
    /\ gen = NoCall
    /\ NoUse
    /\ InitRegistry
    /\ experiments = <<>>
    /\ wells = <<>>
    /\ InitRun
    /\ \E a \in AddressPool, h \in AddressHeaders, dirs \in AddressDirs :
         config = [file |-> File(h.header \o
                                   <<Mapping({"label", "wells"}, <<>>, "", "", "sgGFP",
                                             <<Condition("before", <<Address(a)>>)>>)>>,
                                 h.inferred_is_dir, "plate_1"),
                   other |-> File(<<>>, FALSE, "other"),
                   dirs |-> dirs]
    /\ ld = Called

SpecAddress == InitAddress /\ [][NextLoad]_vars

-----------------------------------------------------------------------------
(* yield_wells and yield_unique_wells.  A generator is held as its          *)
(* keyword, the position its loops have reached and the triples it has     *)
(* yielded; labels, condition names and keywords are character sequences.  *)

\* sub in text, for two strings
Contains(text, sub) ==
    \E k \in 0..(Len(text) - Len(sub)) : SubSeq(text, k + 1, k + Len(sub)) = sub

\* lines 10-13: the test a triple passes to be yielded
Selected(keyword, experiment, condition, well) ==
    \/ keyword = None
    \/ Contains(experiment.label, keyword)
    \/ keyword = condition
    \/ keyword = well.label

\* the triple at a position of the loops
Triple(pos) ==
    [experiment |-> experiments[pos.e],
     condition |-> experiments[pos.e].wells[pos.c].condition,
     well |-> pos.w]

\* the generator is created; nothing runs before the first next()
yield_wells(keyword) ==
    /\ it.fn = "none"
    /\ it' = [fn |-> "yield_wells", keyword |-> keyword, p |-> 1, out |-> <<>>,
              previous_wells |-> {}]
    /\ UNCHANGED <<pvars, gen, lvars, cmp>>

yield_unique_wells(keyword) ==
    /\ it.fn = "none"
    /\ it' = [fn |-> "yield_unique_wells", keyword |-> keyword, p |-> 1, out |-> <<>>,
              previous_wells |-> {}]
    /\ UNCHANGED <<pvars, gen, lvars, cmp>>

\* one pass of the innermost loop of yield_wells
yield_wells_next ==
    /\ it.fn = "yield_wells"
    /\ it.p <= Len(WellPositions(experiments))
    /\ \E t \in {Triple(WellPositions(experiments)[it.p])} :
         it' = [it EXCEPT !.p = @ + 1,
                          !.out = IF Selected(it.keyword, t.experiment, t.condition,
                                              wells[t.well])
                                  THEN Append(@, t) ELSE @]
    /\ UNCHANGED <<pvars, gen, lvars, cmp>>

\* a well of the set is found by hash and ==; Well defines neither, so both
\* are those of object: the set holds identities
InPrevious(w, previous_wells) == w \in previous_wells

\* one pass of the loop of yield_unique_wells over one position of yield_wells
yield_unique_wells_next ==
    /\ it.fn = "yield_unique_wells"
    /\ it.p <= Len(WellPositions(experiments))
    /\ \E t \in {Triple(WellPositions(experiments)[it.p])} :
         IF Selected(it.keyword, t.experiment, t.condition, wells[t.well])
            /\ ~InPrevious(t.well, it.previous_wells)
         THEN it' = [it EXCEPT !.p = @ + 1, !.out = Append(@, t),
                               !.previous_wells = @ \cup {t.well}]
         ELSE it' = [it EXCEPT !.p = @ + 1]
    /\ UNCHANGED <<pvars, gen, lvars, cmp>>

\* names
gf == <<"g", "f">>
rf == <<"r", "f">>
f1 == <<"f">>
b1 == <<"b">>

\* experiment structures: a Well object listed twice, a condition named as
\* a well is labelled, an experiment without wells
IterStructures ==
    {<<Experiment(gf, <<Condition(b1, <<1>>), Condition(f1, <<2>>)>>),
       Experiment(rf, <<Condition(b1, <<3, 1>>)>>)>>,
     <<Experiment(gf, <<Condition(A1, <<1, 2, 3>>)>>)>>,
     <<Experiment(f1, <<>>), Experiment(rf, <<Condition(gf, <<1, 2>>), Condition(b1, <<3>>)>>)>>}

\* the Well objects: two loaded from the same address are distinct objects
\* with the same label, metadata and data
IterWells ==
    {Well(A1, "2", SmallTables[1]), Well(B1, "2", SmallTables[1]),
     Well(A1, "2", SmallTables[3])}

KeywordChars == {"g", "f", "b", "A", "1"}

KeywordPool == SeqsUpTo(KeywordChars, MaxKeyword) \cup {None}

InitIterate ==
    /\ gen = NoCall
    /\ NoLoad
    /\ cmp = [state |-> "none"]
    /\ InitRegistry
    /\ experiments \in IterStructures
    /\ wells \in [1..3 -> IterWells]
    /\ InitRun
    /\ it = [fn |-> "none"]

NextIterate ==
    \/ \E keyword \in KeywordPool : yield_wells(keyword)
    \/ \E keyword \in KeywordPool : yield_unique_wells(keyword)
    \/ yield_wells_next
    \/ yield_unique_wells_next

SpecIterate == InitIterate /\ [][NextIterate]_vars

-----------------------------------------------------------------------------
(* WellCursor96: the label of a cursor and its comparison with another     *)
(* cursor or with an address string.                                       *)

RowLetters == <<"A", "B", "C", "D", "E", "F", "G", "H">>

\* '{:02d}'.format(n) for 0 <= n < 100
TwoDigits(n) == <<DigitChars[(n \div 10) + 1], DigitChars[(n % 10) + 1]>>

\* WellCursor96.label; None and the empty plate name are falsy
WellCursor96_label(c) ==
    LET label == <<RowLetters[c.row + 1]>> \o TwoDigits(c.col + 1)
    IN  IF c.plate # None /\ c.plate # <<>>
        THEN c.plate \o <<"/">> \o label
        ELSE label

\* the operand of ==: another cursor, or a string
CursorOperand(c) == [kind |-> "cursor", index |-> c.index, row |-> c.row, col |-> c.col,
                     plate |-> c.plate, text |-> <<>>]
TextOperand(t)   == [kind |-> "str", index |-> 0, row |-> 0, col |-> 0, plate |-> None,
                     text |-> t]

\* re.match('([A-H])([0-9]{1,2})', well): the pattern is matched at the start
\* of the text and need not reach its end; group 2, or no match
WellMatch(well) ==
    IF Len(well) >= 2 /\ (\E k \in DOMAIN RowLetters : RowLetters[k] = well[1])
       /\ IsDigit(well[2])
    THEN [matched |-> TRUE,
          row |-> (CHOOSE k \in DOMAIN RowLetters : RowLetters[k] = well[1]) - 1,
          number |-> IF Len(well) >= 3 /\ IsDigit(well[3])
                     THEN 10 * DigitValue(well[2]) + DigitValue(well[3])
                     ELSE DigitValue(well[2])]
    ELSE [matched |-> FALSE, row |-> 0, number |-> 0]

\* WellCursor96.__eq__: the value returned, or the exception raised
WellCursor96_eq(self, other) ==
    IF other.kind = "cursor"
    THEN [exc |-> "none",
          value |-> <<self.index, self.row, self.col, self.plate>> =
                    <<other.index, other.row, other.col, other.plate>>]
    ELSE LET parsed == parse_well_label(other.text)
             m == WellMatch(parsed.well)
         IN  IF ~m.matched
             THEN [exc |-> "UsageError: can't compare", value |-> FALSE]
             ELSE [exc |-> "none",
                   value |-> <<self.row, self.col, self.plate>> =
                             <<m.row, m.number - 1, parsed.plate>>]

\* the label without the zero of the column number ('A1' for 'A01')
Unpadded(c) ==
    LET n == c.col + 1
        label == <<RowLetters[c.row + 1]>> \o
                 (IF n < 10 THEN <<DigitChars[n + 1]>> ELSE TwoDigits(n))
    IN  IF c.plate # None /\ c.plate # <<>>
        THEN c.plate \o <<"/">> \o label
        ELSE label

TrailChars == {"0", "x"}

\* what a cursor is compared with: itself, the next cursor made, a cursor
\* of the same place and another index; its label, its unpadded label, the
\* label of the next cursor, each with and without characters appended, and
\* some texts that name no well
Operands(i) ==
    LET c == gen.cursors[i]
        n == gen.cursors[(i % Len(gen.cursors)) + 1]
    IN  {CursorOperand(c), CursorOperand(n), CursorOperand([c EXCEPT !.index = @ + 1])}
        \cup {TextOperand(base \o trail) :
                base \in {WellCursor96_label(c), Unpadded(c), WellCursor96_label(n)},
                trail \in SeqsUpTo(TrailChars, MaxTrail)}
        \cup {TextOperand(t) :
                t \in {<<>>, <<"A">>, <<"I", "0", "1">>, <<"/">> \o WellCursor96_label(c),
                       <<"p", "9", "/">> \o Unpadded(c)}}

\* cursor == other, for a cursor the generator has made
WellCursor96_compare ==
    /\ gen.state = "done"
    /\ cmp.state = "none"
    /\ \E i \in DOMAIN gen.cursors : \E other \in Operands(i) :
         \E r \in {WellCursor96_eq(gen.cursors[i], other)} :
            cmp' = [state |-> "done", self |-> gen.cursors[i], other |-> other,
                    exc |-> r.exc, value |-> r.value]
    /\ UNCHANGED <<pvars, gen, lvars, it>>

\* calls of the generator that make cursors: the default layout and another,
\* without plates, with one and with two
CursorArgs ==
    {a \in LayoutArgs :
        /\ a.layout \in {<<"col", "row", "plate">>, <<"plate", "row", "col">>}
        /\ ~(a.plate_given /\ a.plates_given)
        /\ ~a.order_given
        /\ a.plates \in {{}, {<<"p", "1">>}, {<<"p", "1">>, <<"p", "1", "0">>}}
        /\ a.plates_given => a.plates # {}}

InitCursor ==
    /\ NoLoad
    /\ it = [fn |-> "none"]
    /\ cmp = [state |-> "none"]
    /\ InitRegistry
    /\ experiments = <<>>
    /\ wells = <<>>
    /\ InitRun
    /\ gen \in CursorArgs

NextCursor ==
    \/ define_96_well_plates
    \/ WellCursor96_compare

SpecCursor == InitCursor /\ [][NextCursor]_vars

-----------------------------------------------------------------------------
(* C1, C2: the pipeline and the registry *)

\* the table a step leaves in a well when it raises nothing
Processed(step, well) ==
    (CHOOSE r \in process_well(step, well) : r.exc = "none").data

\* one step applied to the wells at the positions pos, in order
RECURSIVE ApplyToAll(_, _, _)
ApplyToAll(step, ws, pos) ==
    IF pos = <<>> THEN ws
    ELSE ApplyToAll(step,
                    [ws EXCEPT ![Head(pos).w].data = Processed(step, ws[Head(pos).w])],
                    Tail(pos))

\* the first step applied to every well, then the second, and so on
RECURSIVE ApplyInTurn(_, _, _)
ApplyInTurn(ss, ws, pos) ==
    IF ss = <<>> THEN ws
    ELSE ApplyInTurn(Tail(ss), ApplyToAll(Head(ss), ws, pos), pos)

\* C1: run_all_processing_steps runs the registered steps in registration
\* order, each step on every well of every condition of every experiment
\* before the next step touches any well, and a run that raises nothing
\* leaves the result of applying the first step to all wells, then the next.
PipelineOrdering ==
    LET pos == WellPositions(experiments)
        N   == Len(pos)
    IN  run.all =>
        /\ \A i \in DOMAIN trace :
             /\ trace[i].s = ((i - 1) \div N) + 1
             /\ trace[i].p = ((i - 1) % N) + 1
             /\ trace[i].id = run.steps[trace[i].s]
             /\ trace[i].w = pos[trace[i].p].w
        /\ \A i, j \in DOMAIN run.steps : i < j => run.steps[i] < run.steps[j]
        /\ (~run.active /\ exc = "none" /\ N > 0) =>
             /\ Len(trace) = Len(run.steps) * N
             /\ wells = ApplyInTurn(run.recs, wells0, pos)

\* a finished run of two steps over several wells, both steps removing rows
PipelineOrderingWitness ==
    /\ run.all /\ ~run.active /\ exc = "none"
    /\ Len(run.steps) = 2
    /\ Len(WellPositions(experiments)) >= 2
    /\ Len(trace) = 2 * Len(WellPositions(experiments))
    /\ \E w \in DOMAIN wells : Len(apps[w]) = 2
          /\ Len(apps[w][1].after) < Len(apps[w][1].before)
          /\ Len(apps[w][2].after) < Len(apps[w][2].before)

LastClear(log) ==
    IF \E k \in DOMAIN log : log[k].op = "clear"
    THEN CHOOSE k \in DOMAIN log :
            log[k].op = "clear" /\ \A m \in DOMAIN log : log[m].op = "clear" => m <= k
    ELSE 0

\* the instances constructed after the most recent clear, oldest first
SinceLastClear(log) ==
    LET news == SelectSeq(SubSeq(log, LastClear(log) + 1, Len(log)),
                          LAMBDA o : o.op = "new")
    IN  [i \in DOMAIN news |-> news[i].id]

\* C2: the registry is the sequence of the instances constructed since the
\* most recent clear, each once, in construction order; a clear leaves it
\* empty, and run_all_processing_steps applies only those instances.
RegistryLifecycle ==
    /\ all_processing_steps = SinceLastClear(ops)
    /\ \A i, j \in DOMAIN all_processing_steps :
         i # j => all_processing_steps[i] # all_processing_steps[j]
    /\ (ops # <<>> /\ ops[Len(ops)].op = "clear") => all_processing_steps = <<>>
    /\ run.all =>
         /\ run.steps = SinceLastClear(SubSeq(ops, 1, run.at))
         /\ \A i \in DOMAIN trace :
              trace[i].id \in Range(SinceLastClear(SubSeq(ops, 1, run.at)))

\* a step, a clear, another step, and a run that applied the second step
RegistryLifecycleWitness ==
    /\ Len(ops) = 3
    /\ ops[1].op = "new" /\ ops[2].op = "clear" /\ ops[3].op = "new"
    /\ run.all /\ run.at = 3 /\ ~run.active
    /\ trace # <<>>
    /\ all_processing_steps = <<2>>

-----------------------------------------------------------------------------
(* C4, C5: the gates *)

\* the rows a built-in gate is meant to select
NonPositive(step, row) ==
    IF step.channels = <<>>
    THEN \E k \in DOMAIN Columns : row[Columns[k]] <= 0
    ELSE \E k \in DOMAIN step.channels : row[step.channels[k]] <= 0

Early(step, meta, row) ==
    row.Time * float(meta).num < step.throwaway_secs * float(meta).den

Applications(w) == {apps[w][k] : k \in DOMAIN apps[w]}

\* C5: a gating step leaves the table without the rows its mask selects and
\* with the other rows in their order; GateNonPositiveEvents selects the
\* rows with a configured channel <= 0, GateEarlyEvents the rows with
\* Time * timestep < throwaway_secs.
GateRemovesSelectedRows ==
    \A w \in DOMAIN wells : \A a \in Applications(w) :
        a.exc = "none" =>
            /\ \E g \in gate(a.step, [wells[w] EXCEPT !.data = a.before]) :
                 /\ g.exc = "none"
                 /\ LET kept == {i \in DOMAIN a.before : ~g.mask[i]}
                    IN  /\ Len(a.after) = Cardinality(kept)
                        /\ \A k \in DOMAIN a.after :
                             a.after[k] = a.before[CHOOSE i \in kept :
                                 Cardinality({j \in kept : j < i}) = k - 1]
            /\ a.step.cls = "GateNonPositiveEvents" =>
                 a.after = SelectSeq(a.before, LAMBDA r : ~NonPositive(a.step, r))
            /\ a.step.cls = "GateEarlyEvents" =>
                 a.after = SelectSeq(a.before, LAMBDA r : ~Early(a.step, wells[w].meta, r))

\* cutoff 4 and timestep 2 on Time 0..5 leave Time 2..5, and a second gate
\* has acted on a table whose index is no longer 0..n-1
GateRemovesSelectedRowsWitness ==
    /\ Len(apps[1]) = 2
    /\ apps[1][1].step.cls = "GateEarlyEvents" /\ apps[1][1].step.throwaway_secs = 4
    /\ wells[1].meta = "2"
    /\ apps[1][1].before = TestTable
    /\ [i \in DOMAIN apps[1][1].after |-> apps[1][1].after[i].Time] = <<2, 3, 4, 5>>
    /\ apps[1][2].exc = "none"

SecondApplication(w) ==
    /\ Len(apps[w]) = 2
    /\ apps[w][1].exc = "none" /\ apps[w][2].exc = "none"
    /\ apps[w][1].step = apps[w][2].step
    /\ apps[w][2].before = apps[w][1].after

\* C4 as stated: a second application of any built-in gate, with the same
\* parameters, to the result of the first removes no row.
GatingIdempotent ==
    \A w \in DOMAIN wells :
        SecondApplication(w) => apps[w][2].after = apps[w][2].before

\* C4, amended: a second application of GateNonPositiveEvents or of
\* GateEarlyEvents, with the same parameters, to the result of the first
\* removes no row (GateSmallCells takes its cut-off from the table it is
\* given and can remove rows again).
RowGatesIdempotent ==
    \A w \in DOMAIN wells :
        (SecondApplication(w)
           /\ apps[w][2].step.cls \in {"GateNonPositiveEvents", "GateEarlyEvents"})
        => apps[w][2].after = apps[w][2].before

\* a row gate that removed rows the first time has been applied again
RowGatesIdempotentWitness ==
    /\ SecondApplication(1)
    /\ apps[1][2].step.cls = "GateEarlyEvents"
    /\ Len(apps[1][1].after) < Len(apps[1][1].before)
    /\ apps[1][1].after # <<>>

-----------------------------------------------------------------------------
(* C3: the index-to-coordinate map of define_96_well_plates *)

\* the position of a plate in the natural order of the plates, from 0
PlateRank(plate, plates) ==
    Cardinality({q \in plates : NatKey(q) < NatKey(plate)})

\* the value of a cursor on an axis
OnAxis(c, axis, plates) ==
    CASE axis = "row"   -> c.row
      [] axis = "col"   -> c.col
      [] axis = "plate" -> PlateRank(c.plate, plates)

\* C3: when define_96_well_plates runs through with the default plate order
\* and P >= 1 plates, the cursors of the indices 0 .. 96*P - 1 visit every
\* (row, col, plate) of {0..7} x {0..11} x plates exactly once, and each
\* index is the mixed-radix number of its coordinates, fastest axis first.
LayoutBijection ==
    (gen.state = "done" /\ gen.exc = "none" /\ ~gen.order_given /\ gen.nplates >= 1) =>
        LET plates  == IF gen.plates_given THEN gen.plates ELSE {None}
            P       == Cardinality(plates)
            axes    == IF Len(gen.layout) = 2 THEN Append(gen.layout, "plate")
                       ELSE gen.layout
            stride  == [a \in {"row", "col", "plate"} |->
                          IF a = "row" THEN 8 ELSE IF a = "col" THEN 12 ELSE P]
            visited == {<<gen.cursors[i].row, gen.cursors[i].col, gen.cursors[i].plate>> :
                          i \in DOMAIN gen.cursors}
        IN  /\ Len(gen.cursors) = 96 * P
            /\ visited = (0..7) \X (0..11) \X plates
            /\ \A i \in DOMAIN gen.cursors :
                 LET c == gen.cursors[i]
                 IN  /\ c.index = i - 1
                     /\ c.index = OnAxis(c, axes[1], plates)
                                  + stride[axes[1]] * (OnAxis(c, axes[2], plates)
                                  + stride[axes[2]] * OnAxis(c, axes[3], plates))

\* two plates laid out plate-fastest, then row, then column
LayoutBijectionWitness ==
    /\ gen.state = "done" /\ gen.exc = "none" /\ ~gen.order_given
    /\ gen.layout = <<"plate", "row", "col">>
    /\ gen.nplates = 2
    /\ gen.plates = {<<"p", "2">>, <<"p", "1", "0">>}
    /\ Len(gen.cursors) = 192
    /\ gen.cursors[2].plate = <<"p", "1", "0">>
    /\ gen.cursors[192].row = 7 /\ gen.cursors[192].col = 11

-----------------------------------------------------------------------------
(* C6 - C10: the configuration loader *)

HasSlash(label) == \E k \in DOMAIN label : label[k] = "/"

\* the texts around the last '/' of an address
PlatePart(label) ==
    CHOOSE q \in {SubSeq(label, 1, k - 1) : k \in DOMAIN label} :
        \E w \in {SubSeq(label, k + 1, Len(label)) : k \in DOMAIN label} :
            label = q \o <<"/">> \o w /\ ~HasSlash(w)

CodePart(label) ==
    IF ~HasSlash(label) THEN label
    ELSE CHOOSE w \in {SubSeq(label, k + 1, Len(label)) : k \in DOMAIN label} :
            label = PlatePart(label) \o <<"/">> \o w /\ ~HasSlash(w)

PlateOf(label) == IF HasSlash(label) THEN PlatePart(label) ELSE None

\* the calls of load_well on an address, in the pass over the last document
AddressCalls == {ld.calls[k] : k \in {j \in DOMAIN ld.calls : ld.calls[j].item.kind = "str"}}

Failed(c) == ld.pc = "raised" /\ ld.exc = c.exc /\ c.well.kind = "str"

\* C6: load_well fails on a plate that is not in the plate table, before any
\* file lookup, with 'No default plate defined' for no plate and 'Plate
\* <name> not defined' otherwise; on a defined plate it fails with the
\* not-found error on no matching file, with the ambiguous-well error naming
\* the address on several, and returns a Well labelled with the address on
\* exactly one.
LoadWellOneFile ==
    \A c \in AddressCalls :
        LET label == c.item.label
            plate == PlateOf(label)
            entry == {i \in DOMAIN ld.plates : ld.plates[i].key = plate}
        IN  IF entry = {}
            THEN /\ Failed(c)
                 /\ ~c.globbed
                 /\ c.exc = IF plate = None
                            THEN Exc("UsageError: No default plate defined.", <<>>)
                            ELSE Exc("UsageError: Plate not defined.", plate)
            ELSE LET dir == config.dirs[ld.plates[CHOOSE i \in entry : TRUE].value]
                     n   == Cardinality({f \in DOMAIN dir :
                                           CodePart(label) \in Range(dir[f])})
                 IN  /\ n = 0 => Failed(c) /\
                           c.exc = Exc("UsageError: No *.fcs files found for well", label)
                     /\ n > 1 => Failed(c) /\
                           c.exc = Exc("UsageError: Multiple *.fcs files found for well", label)
                     /\ n = 1 => c.exc = NoExc /\ c.well.kind = "Well"
                                 /\ c.well.label = label

\* two files match A1 on the named plate p
LoadWellOneFileWitness ==
    /\ ld.pc = "raised"
    /\ ld.exc = Exc("UsageError: Multiple *.fcs files found for well", <<"p", "/", "A", "1">>)
    /\ HasKey(ld.plates, <<"p">>)

\* a well code: one letter A-H, then one or two digits
ValidCode(code) ==
    /\ Len(code) \in {2, 3}
    /\ code[1] \in {"A", "B", "C", "D", "E", "F", "G", "H"}
    /\ \A k \in 2..Len(code) : IsDigit(code[k])

\* C8: an address whose code is not a letter A-H and one or two digits, or
\* whose plate is the empty string, fails with the address-syntax error and
\* never yields a Well.
AddressValidation ==
    \A c \in AddressCalls :
        (~ValidCode(CodePart(c.item.label)) \/ PlateOf(c.item.label) = <<>>) =>
            /\ c.well.kind = "str"
            /\ c.exc.kind = "UsageError: address syntax"

FirstDocument == config.file.documents[1]

IsEmpty(d) == d.null \/ d.keys = {}

\* C7: the plate table comes from the first document's 'plates', else from
\* its 'plate', else from the directory named after the configuration file,
\* else it is empty; in the first two cases the document must have no other
\* field (ambiguous-header error) and is removed, in the last two it stays
\* and is the first to be processed as an experiment.
HeaderPrecedence ==
    (ld.pc \notin {"none", "call"} /\ config.file.documents # <<>>) =>
        LET d == FirstDocument
            has(k) == ~d.null /\ k \in d.keys
        IN  IF has("plates") \/ has("plate")
            THEN IF Cardinality(d.keys) > 1
                 THEN ld.pc = "raised" /\ ~ld.tabled /\
                      ld.exc = Exc("UsageError: Too many fields in 'plates' header.", <<>>)
                 ELSE /\ ld.tabled
                      /\ ld.rest = Tail(config.file.documents)
                      /\ IF has("plates")
                         THEN /\ Len(ld.plates) = Len(d.plates)
                              /\ \A i \in DOMAIN d.plates :
                                   HasKey(ld.plates, d.plates[i].key) /\
                                   Lookup(ld.plates, d.plates[i].key) = d.plates[i].value
                         ELSE ld.plates = <<[key |-> None, value |-> d.plate]>>
            ELSE /\ ld.tabled
                 /\ ld.rest = config.file.documents
                 /\ ld.plates = IF config.file.inferred_is_dir
                                THEN <<[key |-> None, value |-> config.file.inferred_path]>>
                                ELSE <<>>

\* the document the loop was at when the load failed
FailedAt == Head(ld.documents)

\* C10: a load that comes to a document without any field, the first one
\* included, fails with the empty-experiment error and no other, and a load
\* that returns has met no such document.
EmptyExperimentError ==
    /\ (ld.pc \notin {"none", "call"} /\ config.file.documents # <<>>
          /\ IsEmpty(FirstDocument)) =>
            ld.exc.kind \in {"none", "UsageError: An empty experiment was found."}
    /\ (ld.pc = "raised" /\ config.file.documents # <<>> /\ IsEmpty(FirstDocument)) =>
            ld.exc.kind = "UsageError: An empty experiment was found."
    /\ (ld.pc = "raised" /\ ld.tabled /\ IsEmpty(FailedAt)) =>
            ld.exc.kind = "UsageError: An empty experiment was found."
    /\ ld.pc = "returned" => \A k \in DOMAIN ld.rest : ~IsEmpty(ld.rest[k])

\* the experiment a 'from' document stands for in a file whose load succeeds
OtherLoad == load_experiments(config.other, config.dirs)

\* C9: every experiment returned has a label and wells, all of them loaded
\* Wells; a load that comes to a document without 'label' fails with the
\* missing-label error, one that comes to a document with a label and
\* without wells (its own, or those of the experiment it refers to) fails
\* with the missing-wells error, and neither kind is ever returned.
RequiredFields ==
    /\ \A k \in DOMAIN ld.experiments :
         LET e == ld.experiments[k]
         IN  /\ {"label", "wells"} \subseteq e.keys
             /\ \A c \in DOMAIN e.wells : \A i \in DOMAIN e.wells[c].wells :
                  e.wells[c].wells[i].kind = "Well"
    /\ (ld.pc = "raised" /\ ld.tabled /\ ~IsEmpty(FailedAt)) =>
         /\ "label" \notin FailedAt.keys =>
              ld.exc.kind = "UsageError: The following experiment is missing a label"
         /\ ("label" \in FailedAt.keys /\ "from" \notin FailedAt.keys
               /\ "wells" \notin FailedAt.keys) =>
              ld.exc.kind = "UsageError: The following experiment doesn't have any wells"
    /\ ld.pc = "returned" =>
         \A k \in DOMAIN ld.rest :
            /\ "label" \in ld.rest[k].keys
            /\ "wells" \in ld.rest[k].keys \/ "from" \in ld.rest[k].keys

-----------------------------------------------------------------------------
(* C11, C12: the well iterators *)

\* the positions the generator has passed
Passed == SubSeq(WellPositions(experiments), 1, it.p - 1)

\* the keyword is the experiment's label, the condition name or the well's label
KeywordEquals(keyword, t) ==
    \/ keyword = t.experiment.label
    \/ keyword = t.condition
    \/ keyword = wells[t.well].label

\* C11: yield_wells with a keyword yields a triple only if the keyword equals
\* the experiment's label, the condition name or the well's label; without a
\* keyword it yields every triple once, in experiment, condition, well order.
KeywordFilter ==
    it.fn = "yield_wells" =>
        /\ it.keyword # None =>
             \A k \in DOMAIN it.out : KeywordEquals(it.keyword, it.out[k])
        /\ it.keyword = None =>
             it.out = [k \in DOMAIN Passed |-> Triple(Passed[k])]

\* the passed positions whose triple passes the keyword test and whose well
\* has the label, metadata and data of no well selected before it
FirstStructural ==
    LET sel(k) == Selected(it.keyword, Triple(Passed[k]).experiment,
                           Triple(Passed[k]).condition, wells[Passed[k].w])
    IN  SelectSeq([k \in DOMAIN Passed |-> k],
                  LAMBDA k : /\ sel(k)
                             /\ ~\E j \in 1..(k - 1) :
                                   sel(j) /\ wells[Passed[j].w] = wells[Passed[k].w])

\* C12: yield_unique_wells yields the triples of yield_wells, in their order,
\* without those whose well is structurally equal (label, metadata, data) to
\* a well already yielded; two wells loaded from one address come out once.
UniqueStructural ==
    it.fn = "yield_unique_wells" =>
        it.out = [n \in DOMAIN FirstStructural |-> Triple(Passed[FirstStructural[n]])]

-----------------------------------------------------------------------------
(* C13: the layout string *)

\* the axis list names each of row, col and plate exactly once
ProperPermutation(layout) ==
    Len(layout) = 3 /\ Range(layout) = {"row", "col", "plate"}

\* C13: a call of define_96_well_plates whose layout is not a permutation of
\* row, col and plate (wrong names, missing, repeated or more than three
\* axes) fails with the invalid-layout usage error and generates nothing.
LayoutValidation ==
    (/\ gen.state = "done"
     /\ ~(gen.plate_given /\ gen.plates_given)
     /\ ~ProperPermutation(gen.layout)) =>
        gen.exc = "UsageError: invalid layout" /\ gen.cursors = <<>>

-----------------------------------------------------------------------------
(* C14: cursor equality *)

\* the text is an address of the place of the cursor: its plate, or none,
\* and a well code that names its row and its column
SamePlace(c, text) ==
    /\ ValidCode(CodePart(text))
    /\ PlateOf(text) = c.plate
    /\ CodePart(text)[1] = RowLetters[c.row + 1]
    /\ LET digits == Tail(CodePart(text))
       IN  c.col + 1 = IF Len(digits) = 1 THEN DigitValue(digits[1])
                       ELSE 10 * DigitValue(digits[1]) + DigitValue(digits[2])

\* C14: a cursor equals another cursor exactly when their coordinates are
\* identical and equals an address string exactly when the string parses to
\* its row, column and plate; a generated cursor equals its own label, and a
\* string whose code is not a valid well code equals no cursor.
CursorEquality ==
    cmp.state = "done" =>
        /\ cmp.other.kind = "cursor" =>
             /\ cmp.exc = "none"
             /\ cmp.value <=> /\ cmp.other.index = cmp.self.index
                              /\ cmp.other.row = cmp.self.row
                              /\ cmp.other.col = cmp.self.col
                              /\ cmp.other.plate = cmp.self.plate
        /\ cmp.other.kind = "str" =>
             /\ cmp.value <=> SamePlace(cmp.self, cmp.other.text)
             /\ cmp.other.text = WellCursor96_label(cmp.self) =>
                  cmp.exc = "none" /\ cmp.value
             /\ ~ValidCode(CodePart(cmp.other.text)) => ~cmp.value

-----------------------------------------------------------------------------
(* C15: steps without their operation *)

Abstract == AbstractSteps \cup AbstractGates

\* the loops of the last run were entered over at least one well and are over
RunOver == ~run.active /\ run.steps # <<>> /\ WellPositions(experiments) # <<>>

\* C15: process_well of a step whose class implements neither process_well
\* nor gate fails with an error that names the class of the step, for a
\* ProcessingStep subclass and for a GatingStep subclass alike; the call
\* changes no well's data and never ends without an error.
AbstractStepFails ==
    /\ \A k \in DOMAIN trace :
         run.recs[trace[k].s].cls \in Abstract =>
            trace[k].exc = NotImplementedError(<<run.recs[trace[k].s].cls>>)
    /\ \A w \in DOMAIN apps : \A k \in DOMAIN apps[w] :
         apps[w][k].step.cls \in Abstract =>
            /\ apps[w][k].exc # "none"
            /\ apps[w][k].after = apps[w][k].before
    /\ (RunOver /\ \E i \in DOMAIN run.recs : run.recs[i].cls \in Abstract) =>
         exc # "none"


====
